---- MODULE Spec2Model ----
(***************************************************************************)
(* The upload rate limiter of picfast-mvp (src/index.js): the per-IP       *)
(* rateLimitStore, rateLimitMiddleware, the hourly cleanup timer, the      *)
(* /upload handler's recording of completed uploads and the                *)
(* /api/rate-limit-status read.                                            *)
(*                                                                         *)
(* Time is Date.now() in milliseconds, measured from an origin that lies   *)
(* before the oldest recorded upload (every comparison of the code is a    *)
(* difference of two clock readings, or a clock reading plus a duration).  *)
(* Entries of the Map are JavaScript objects: a request keeps a reference  *)
(* to the object it was admitted against (req.rateLimitData), so objects   *)
(* live in a heap and the Map holds references.                            *)
(***************************************************************************)
EXTENDS Integers, Sequences, FiniteSets, TLC

VARIABLES
  now,             \* Date.now()
  rateLimitStore,  \* the Map: clientIP -> reference to its entry, or NoEntry
  heap,            \* the entry objects: {uploads, violations, blockedUntil}
  reqs,            \* the /upload requests in flight, each at its position
  nextCleanup,     \* earliest time the setInterval callback runs next
  nreq,            \* number of /upload requests received so far
  lastResp,        \* the outcome of the last handler run: the response sent, or next()
  dataFile         \* data.json on disk: "current" when it holds imageMap, else "stale"

vars == <<now, rateLimitStore, heap, reqs, nextCleanup, nreq, lastResp, dataFile>>

-----------------------------------------------------------------------------
(* Bounds of the model *)

\* /upload requests received in one behaviour of Spec
MaxRequests == 3
\* /upload requests received in one behaviour of SpecLong
MaxRequestsLong == 4
\* /upload requests in flight at the same time
MaxInFlight == 2

-----------------------------------------------------------------------------
(* Program constants *)

RATE_LIMITS ==
  [perMinute |-> 15, perHour |-> 100, perDay |-> 150, hourlySize |-> 50 * 1024 * 1024]

MINUTE_MS == 60 * 1000
HOUR_MS == 60 * 60 * 1000
DAY_MS == 24 * 60 * 60 * 1000
CLEANUP_PERIOD == 60 * 60 * 1000
MAX_FILE_SIZE == 5 * 1024 * 1024

\* null, as the value of blockedUntil
NULL == -1

IPs == {"a", "b"}
NoEntry == 0
Reqs == 1 .. MaxInFlight
\* one object per Map entry plus one per request in flight is all a state can reference
ObjIds == 1 .. (Cardinality(IPs) + MaxInFlight)

\* the object literal of rateLimitStore.set(clientIP, {...})
FreshEntry == [uploads |-> <<>>, violations |-> 0, blockedUntil |-> NULL]

IdleReq == [pc |-> "idle", clientIP |-> "a", rateLimitData |-> NoEntry, size |-> 0]

-----------------------------------------------------------------------------
(* The clock readings and file sizes the model draws its inputs from *)

Start == 2 * HOUR_MS

\* clock readings around the minute window and the first block
ShortOffsets == { 0, MINUTE_MS - 1, MINUTE_MS, 5 * MINUTE_MS - 1, 5 * MINUTE_MS }

\* clock readings at the ends of the escalating blocks and around the 24 hour window
LongOffsets ==
  { 0, 5 * MINUTE_MS, 20 * MINUTE_MS, 80 * MINUTE_MS,
    DAY_MS - 1, DAY_MS, DAY_MS + HOUR_MS, DAY_MS + 80 * MINUTE_MS, DAY_MS + 80 * MINUTE_MS + 1 }

\* clock readings around the moment the uploads of two hours before Start are a day old
DayOffsets ==
  { 0, DAY_MS - 2 * HOUR_MS - MINUTE_MS, DAY_MS - 2 * HOUR_MS, DAY_MS - 2 * HOUR_MS + 5 * MINUTE_MS }

Instants == { Start + o : o \in ShortOffsets }
DayInstants == { Start + o : o \in DayOffsets }

\* two clock readings of the same minute
PairInstants == { Start, Start + MINUTE_MS - 1 }

\* the ends of the escalating blocks
FairInstants ==
  { Start + o : o \in { 0, 5 * MINUTE_MS, 20 * MINUTE_MS, 80 * MINUTE_MS, DAY_MS + 80 * MINUTE_MS } }
LongInstants == { Start + o : o \in LongOffsets }

SMALL_FILE == 1 * 1024
MID_FILE == 3 * 1024 * 1024
FileSizes == { SMALL_FILE, MAX_FILE_SIZE }

\* n uploads of one size recorded at time t
Block(n, t, size) == [i \in 1 .. n |-> [timestamp |-> t, size |-> size]]

\* Upload histories a client can have at time Start with no violation on record:
\* every one is a chronological list of uploads of at most MAX_FILE_SIZE bytes.
Histories ==
  { Block(14, Start, SMALL_FILE),
    Block(99, Start - 30 * MINUTE_MS, SMALL_FILE),
    Block(100, Start - 2 * HOUR_MS, SMALL_FILE) \o Block(50, Start - 30 * MINUTE_MS, SMALL_FILE),
    Block(9, Start - 30 * MINUTE_MS, MAX_FILE_SIZE) \o Block(1, Start - 30 * MINUTE_MS, MID_FILE),
    \* the day, hour and minute counts and the hourly size all at their limits
    Block(50, Start - 2 * HOUR_MS, SMALL_FILE) \o Block(85, Start - 30 * MINUTE_MS, SMALL_FILE)
      \o Block(5, Start, SMALL_FILE) \o Block(10, Start, MAX_FILE_SIZE),
    \* the day and hour counts and the hourly size at their limits
    Block(50, Start - 2 * HOUR_MS, SMALL_FILE) \o Block(90, Start - 30 * MINUTE_MS, SMALL_FILE)
      \o Block(10, Start - 30 * MINUTE_MS, MAX_FILE_SIZE),
    \* the day count and the hourly size at their limits
    Block(140, Start - 2 * HOUR_MS, SMALL_FILE) \o Block(10, Start - 30 * MINUTE_MS, MAX_FILE_SIZE) }

-----------------------------------------------------------------------------
(* Pure helpers of the code *)

\* Within with <= in place of <
WithinInclusive(uploads, t, window) ==
  SelectSeq(uploads, LAMBDA upload : t - upload.timestamp <= window)

\* uploads.filter(upload => t - upload.timestamp < window)
Within(uploads, t, window) ==
  SelectSeq(uploads, LAMBDA upload : t - upload.timestamp < window)

\* uploads.filter(upload => upload.timestamp > oneDayAgo)
NewerThan(uploads, oneDayAgo) ==
  SelectSeq(uploads, LAMBDA upload : upload.timestamp > oneDayAgo)

\* uploads.reduce((total, upload) => total + upload.size, 0): total[lo, hi] is the
\* sum of the sizes of uploads[lo] .. uploads[hi], added up by halves
SumSize(uploads) ==
  LET total[lo \in 1 .. Len(uploads) + 1, hi \in 0 .. Len(uploads)] ==
        IF lo > hi THEN 0
        ELSE IF lo = hi THEN uploads[lo].size
        ELSE total[lo, (lo + hi) \div 2] + total[(lo + hi) \div 2 + 1, hi]
  IN total[1, Len(uploads)]

\* a JavaScript value used as a condition: null and 0 are falsy
Truthy(v) == v /= NULL /\ v /= 0

\* IsBlocked with the comparison turned around
IsBlockedFlipped(rateData, t) == Truthy(rateData.blockedUntil) /\ t > rateData.blockedUntil

\* IsBlocked without the comparison with the clock
IsBlockedForever(rateData, t) == Truthy(rateData.blockedUntil)

\* rateData.blockedUntil && now < rateData.blockedUntil
IsBlocked(rateData, t) == Truthy(rateData.blockedUntil) /\ t < rateData.blockedUntil

\* Counts with dayUploads left unfiltered
CountsDayUnfiltered(uploads, t) ==
  [lastMinute |-> Len(Within(uploads, t, MINUTE_MS)),
   lastHour   |-> Len(Within(uploads, t, HOUR_MS)),
   lastDay    |-> Len(uploads),
   hourlySize |-> SumSize(Within(uploads, t, HOUR_MS))]

\* the locals minuteUploads.length, hourUploads.length, dayUploads.length, hourlySize
Counts(uploads, t) ==
  [lastMinute |-> Len(Within(uploads, t, MINUTE_MS)),
   lastHour   |-> Len(Within(uploads, t, HOUR_MS)),
   lastDay    |-> Len(Within(uploads, t, DAY_MS)),
   hourlySize |-> SumSize(Within(uploads, t, HOUR_MS))]

NoCounts == [lastMinute |-> -1, lastHour |-> -1, lastDay |-> -1, hourlySize |-> -1]

\* Violation with > in place of >= on the per-minute count
ViolationOffByOne(c) ==
  IF c.lastMinute > RATE_LIMITS.perMinute THEN "minute"
  ELSE IF c.lastHour >= RATE_LIMITS.perHour THEN "hour"
  ELSE IF c.lastDay >= RATE_LIMITS.perDay THEN "day"
  ELSE IF c.hourlySize >= RATE_LIMITS.hourlySize THEN "size"
  ELSE "none"

\* Violation with the hourly size tested first
ViolationSizeFirst(c) ==
  IF c.hourlySize >= RATE_LIMITS.hourlySize THEN "size"
  ELSE IF c.lastMinute >= RATE_LIMITS.perMinute THEN "minute"
  ELSE IF c.lastHour >= RATE_LIMITS.perHour THEN "hour"
  ELSE IF c.lastDay >= RATE_LIMITS.perDay THEN "day"
  ELSE "none"

\* the if / else-if chain that sets violation and violationMessage
Violation(c) ==
  IF c.lastMinute >= RATE_LIMITS.perMinute THEN "minute"
  ELSE IF c.lastHour >= RATE_LIMITS.perHour THEN "hour"
  ELSE IF c.lastDay >= RATE_LIMITS.perDay THEN "day"
  ELSE IF c.hourlySize >= RATE_LIMITS.hourlySize THEN "size"
  ELSE "none"

\* BlockDuration without the last tier
BlockDurationNoDay(violations) ==
  IF violations = 1 THEN 5 * 60 * 1000
  ELSE IF violations = 2 THEN 15 * 60 * 1000
  ELSE 60 * 60 * 1000

\* the progressive punishment, from the incremented rateData.violations
BlockDuration(violations) ==
  IF violations = 1 THEN 5 * 60 * 1000
  ELSE IF violations = 2 THEN 15 * 60 * 1000
  ELSE IF violations = 3 THEN 60 * 60 * 1000
  ELSE 24 * 60 * 60 * 1000

-----------------------------------------------------------------------------
(* The heap of entry objects *)

Referenced(store, rq) ==
  { store[ip] : ip \in IPs } \cup { rq[r].rateLimitData : r \in Reqs }

\* NewObj handing out one and the same object to every client
NewObjShared == CHOOSE o \in ObjIds : TRUE

\* the object a new object literal allocates
NewObj == CHOOSE o \in ObjIds : o \notin Referenced(rateLimitStore, reqs)

\* objects no longer referenced by the Map or by a request are garbage
Collect(h, store, rq) ==
  [o \in ObjIds |-> IF o \in Referenced(store, rq) THEN h[o] ELSE FreshEntry]

\* the entry the Map holds for ip (rateLimitStore.get(ip)), when it has one
EntryOf(ip) == heap[rateLimitStore[ip]]

Has(ip) == rateLimitStore[ip] /= NoEntry

-----------------------------------------------------------------------------
(* Initial states *)

Response(kind, ip, blockedUntil, violations, counts) ==
  [kind |-> kind, ip |-> ip, blockedUntil |-> blockedUntil,
   violations |-> violations, counts |-> counts]

NoResponse ==
  [kind |-> "none", ip |-> "a", blockedUntil |-> NULL,
   violations |-> -1, counts |-> NoCounts]

\* The Map is empty after construction; a server that has been running holds entries.
\* Client "a" starts with no entry or with one of Histories, client "b" with none.
Init ==
  /\ now = Start
  /\ reqs = [r \in Reqs |-> IdleReq]
  /\ nreq = 0
  /\ lastResp = NoResponse
  /\ nextCleanup = Start
  /\ dataFile = "current"
  /\ \/ /\ rateLimitStore = [ip \in IPs |-> NoEntry]
        /\ heap = [o \in ObjIds |-> FreshEntry]
     \/ \E h \in Histories :
          /\ rateLimitStore = [ip \in IPs |-> IF ip = "a" THEN 1 ELSE NoEntry]
          /\ heap = [o \in ObjIds |-> IF o = 1 THEN [FreshEntry EXCEPT !.uploads = h]
                                               ELSE FreshEntry]

-----------------------------------------------------------------------------
(* rateLimitMiddleware: request slot r receives POST /upload from clientIP *)

\* Prune keeping every upload
PruneKeepsAll(rateData, t) == rateData

\* rateData.uploads = rateData.uploads.filter(upload => now - upload.timestamp < 24h)
Prune(rateData, t) == [rateData EXCEPT !.uploads = Within(@, t, DAY_MS)]

\* if (violation) { rateData.violations++; ...; rateData.blockedUntil = now + blockDuration }
Punish(rateData, t) ==
  [rateData EXCEPT !.violations = @ + 1,
                   !.blockedUntil = t + BlockDuration(rateData.violations + 1)]

rateLimitMiddleware(r, clientIP) ==
  /\ reqs[r].pc = "idle"
  /\ \A q \in Reqs : q < r => reqs[q].pc /= "idle"
  /\ nreq' = nreq + 1
  /\ LET obj == IF Has(clientIP) THEN rateLimitStore[clientIP] ELSE NewObj
         rateData == heap[obj]
     IN /\ rateLimitStore' = [rateLimitStore EXCEPT ![clientIP] = obj]
        /\ IF IsBlocked(rateData, now)
           THEN /\ lastResp' = Response("blocked", clientIP, rateData.blockedUntil, -1, NoCounts)
                /\ UNCHANGED <<heap, reqs>>
           ELSE LET pruned == Prune(rateData, now)
                    counts == Counts(pruned.uploads, now)
                    violation == Violation(counts)
                IN IF violation /= "none"
                   THEN LET punished == Punish(pruned, now)
                        IN /\ heap' = [heap EXCEPT ![obj] = punished]
                           /\ lastResp' = Response(violation, clientIP, punished.blockedUntil,
                                                   punished.violations, counts)
                           /\ UNCHANGED reqs
                   ELSE /\ heap' = [heap EXCEPT ![obj] = pruned]
                        /\ reqs' = [reqs EXCEPT ![r] =
                                      [pc |-> "multer", clientIP |-> clientIP,
                                       rateLimitData |-> obj, size |-> 0]]
                        /\ lastResp' = Response("next", clientIP, pruned.blockedUntil,
                                                pruned.violations, counts)
  /\ UNCHANGED <<now, nextCleanup, dataFile>>

-----------------------------------------------------------------------------
(* upload.single('image') and the /upload handler *)

\* Finish with the upload counted although it did not complete
FinishCounted(r) ==
  /\ reqs' = [reqs EXCEPT ![r] = IdleReq]
  /\ heap' = Collect([heap EXCEPT ![reqs[r].rateLimitData].uploads =
                        Append(@, [timestamp |-> now, size |-> 0])],
                     rateLimitStore, reqs')
  /\ lastResp' = Response("failed", reqs[r].clientIP, NULL, -1, NoCounts)
  /\ UNCHANGED <<now, rateLimitStore, nextCleanup, nreq, dataFile>>

\* Finish with the client's entry deleted from the Map
FinishDeletes(r) ==
  /\ reqs' = [reqs EXCEPT ![r] = IdleReq]
  /\ rateLimitStore' = [rateLimitStore EXCEPT ![reqs[r].clientIP] = NoEntry]
  /\ heap' = Collect(heap, rateLimitStore', reqs')
  /\ lastResp' = Response("failed", reqs[r].clientIP, NULL, -1, NoCounts)
  /\ UNCHANGED <<now, nextCleanup, nreq, dataFile>>

\* the request leaves the server without reaching the recording of the upload
Finish(r) ==
  /\ reqs' = [reqs EXCEPT ![r] = IdleReq]
  /\ heap' = Collect(heap, rateLimitStore, reqs')
  /\ lastResp' = Response("failed", reqs[r].clientIP, NULL, -1, NoCounts)
  /\ UNCHANGED <<now, rateLimitStore, nextCleanup, nreq, dataFile>>

\* if (!req.file) return res.status(400)
NoFile(r) == reqs[r].pc = "multer" /\ Finish(r)

\* the file exceeds limits.fileSize: multer ends the request with LIMIT_FILE_SIZE
FileTooLarge(r) == reqs[r].pc = "multer" /\ Finish(r)

\* the client disconnects while the body is being received
ClientAbort(r) == reqs[r].pc = "multer" /\ Finish(r)

\* diskStorage fails to write the file under uploads/: multer passes the error on
WriteFailed(r) == reqs[r].pc = "multer" /\ Finish(r)

\* Record without the reset of blockedUntil
RecordKeepsBlock(rateData, t, size) ==
  [uploads |-> Append(rateData.uploads, [timestamp |-> t, size |-> size]),
   violations |-> 0,
   blockedUntil |-> rateData.blockedUntil]

\* req.rateLimitData.uploads.push({timestamp: Date.now(), size: req.file.size});
\* req.rateLimitData.violations = 0; req.rateLimitData.blockedUntil = null
Record(rateData, t, size) ==
  [uploads |-> Append(rateData.uploads, [timestamp |-> t, size |-> size]),
   violations |-> 0,
   blockedUntil |-> NULL]

\* try { fs.writeFileSync(dataFile, ...) } catch (error) { console.error(...) }:
\* `written` says whether the write succeeded; a failed write is logged and swallowed
saveData(written) == dataFile' = IF written THEN "current" ELSE "stale"

\* imageMap[id] = ...; saveData(imageMap); record; res.json(...)
StoreAndRecord(r, size, written) ==
  LET obj == reqs[r].rateLimitData
  IN /\ saveData(written)
     /\ reqs' = [reqs EXCEPT ![r] = IdleReq]
     /\ heap' = Collect([heap EXCEPT ![obj] = Record(heap[obj], now, size)],
                        rateLimitStore, reqs')
     /\ lastResp' = Response("ok", reqs[r].clientIP, NULL, 0, NoCounts)
     /\ UNCHANGED <<now, rateLimitStore, nextCleanup, nreq>>

\* the handler runs with a file of `size` bytes that is not HEIC/HEIF
UploadPlain(r, size, written) ==
  /\ reqs[r].pc = "multer"
  /\ StoreAndRecord(r, size, written)

\* the handler runs with a HEIC/HEIF file and awaits its conversion
UploadHeic(r, size) ==
  /\ reqs[r].pc = "multer"
  /\ reqs' = [reqs EXCEPT ![r].pc = "convert", ![r].size = size]
  /\ UNCHANGED <<now, rateLimitStore, heap, nextCleanup, nreq, lastResp, dataFile>>

\* the conversion and the write of the .jpg succeed
ConvertDone(r, written) ==
  /\ reqs[r].pc = "convert"
  /\ StoreAndRecord(r, reqs[r].size, written)

\* the catch around the conversion and fs.writeFileSync(outputPath): res.status(500)
ConvertFailed(r) == reqs[r].pc = "convert" /\ Finish(r)

-----------------------------------------------------------------------------
(* The setInterval callback *)

\* data.uploads = data.uploads.filter(upload => upload.timestamp > oneDayAgo)
CleanupPrune(data, t) == [data EXCEPT !.uploads = NewerThan(@, t - DAY_MS)]

\* CleanupDeletes without the test of blockedUntil
CleanupDeletesEmpty(data, t) == Len(data.uploads) = 0

\* data.uploads.length === 0 && (!data.blockedUntil || now > data.blockedUntil)
CleanupDeletes(data, t) ==
  Len(data.uploads) = 0 /\ (~Truthy(data.blockedUntil) \/ t > data.blockedUntil)

Cleanup ==
  /\ now >= nextCleanup
  /\ nextCleanup' = now + CLEANUP_PERIOD
  /\ LET inMap == { rateLimitStore[ip] : ip \in IPs } \ {NoEntry}
         heap1 == [o \in ObjIds |-> IF o \in inMap THEN CleanupPrune(heap[o], now) ELSE heap[o]]
         store1 == [ip \in IPs |->
                      IF Has(ip) /\ CleanupDeletes(heap1[rateLimitStore[ip]], now)
                      THEN NoEntry ELSE rateLimitStore[ip]]
     IN /\ rateLimitStore' = store1
        /\ heap' = Collect(heap1, store1, reqs)
  /\ UNCHANGED <<now, reqs, nreq, lastResp, dataFile>>

-----------------------------------------------------------------------------
(* GET /api/rate-limit-status *)

\* RateLimitStatus creating the entry it does not find, as rateLimitMiddleware does
RateLimitStatusCreates(clientIP) ==
  /\ lastResp' =
       IF ~Has(clientIP)
       THEN Response("nodata", clientIP, NULL, -1, NoCounts)
       ELSE Response("status", clientIP, EntryOf(clientIP).blockedUntil,
                     EntryOf(clientIP).violations, Counts(EntryOf(clientIP).uploads, now))
  /\ rateLimitStore' =
       [rateLimitStore EXCEPT ![clientIP] = IF Has(clientIP) THEN @ ELSE NewObj]
  /\ UNCHANGED <<now, heap, reqs, nextCleanup, nreq, dataFile>>

\* const rateData = rateLimitStore.get(clientIP); if (!rateData) return res.json(...)
RateLimitStatus(clientIP) ==
  /\ lastResp' =
       IF ~Has(clientIP)
       THEN Response("nodata", clientIP, NULL, -1, NoCounts)
       ELSE Response("status", clientIP, EntryOf(clientIP).blockedUntil,
                     EntryOf(clientIP).violations, Counts(EntryOf(clientIP).uploads, now))
  /\ UNCHANGED <<now, rateLimitStore, heap, reqs, nextCleanup, nreq, dataFile>>

-----------------------------------------------------------------------------
(* The clock *)

Advance(t) ==
  /\ t > now
  /\ now' = t
  /\ UNCHANGED <<rateLimitStore, heap, reqs, nextCleanup, nreq, lastResp, dataFile>>

-----------------------------------------------------------------------------

\* the client that sends the requests of Spec and SpecLong
Clients == {"a"}

\* the outcomes of the write of data.json
Written == {TRUE}

\* The server's steps with clients C, request slots R, at most N requests, clock
\* readings T, file sizes S and outcomes W of the write of data.json
Step(C, R, N, T, S, W) ==
  \/ \E r \in R, ip \in C : nreq < N /\ rateLimitMiddleware(r, ip)
  \/ \E r \in R : NoFile(r)
  \/ \E r \in R : FileTooLarge(r)
  \/ \E r \in R : ClientAbort(r)
  \/ \E r \in R : WriteFailed(r)
  \/ \E r \in R, size \in S, written \in W : UploadPlain(r, size, written)
  \/ \E r \in R, size \in S : UploadHeic(r, size)
  \/ \E r \in R, written \in W : ConvertDone(r, written)
  \/ \E r \in R : ConvertFailed(r)
  \/ Cleanup
  \/ \E t \in T : Advance(t)

\* concurrent uploads over the first minutes
Next == Step(Clients, Reqs, MaxRequests, Instants, FileSizes, Written)
Spec == Init /\ [][Next]_vars

\* one upload at a time over more than a day, with status reads
NextLong ==
  \/ Step(Clients, {1}, MaxRequestsLong, LongInstants, {SMALL_FILE}, Written)
  \/ \E ip \in IPs : RateLimitStatus(ip)
SpecLong == Init /\ [][NextLong]_vars

\* two clients with concurrent uploads within one minute
NextPair == Step(IPs, Reqs, MaxRequests, PairInstants, {SMALL_FILE}, Written)
SpecPair == Init /\ [][NextPair]_vars

\* one upload at a time around the end of the 24 hour window
NextDay == Step(Clients, {1}, MaxRequests, DayInstants, {SMALL_FILE}, Written)
SpecDay == Init /\ [][NextDay]_vars

\* a client that waits for the end of its block before it sends its next request
Retry(ip) ==
  /\ nreq < MaxRequestsLong + 1
  /\ Has(ip) => ~IsBlocked(EntryOf(ip), now)
  /\ rateLimitMiddleware(1, ip)

\* a client that keeps retrying and completes no further upload, under a clock that
\* advances
NextFair ==
  \/ \E ip \in Clients : Retry(ip)
  \/ NoFile(1)
  \/ FileTooLarge(1)
  \/ ClientAbort(1)
  \/ WriteFailed(1)
  \/ UploadHeic(1, SMALL_FILE)
  \/ ConvertFailed(1)
  \/ Cleanup
  \/ \E t \in FairInstants : Advance(t)
SpecFair ==
  /\ Init
  /\ [][NextFair]_vars
  /\ WF_vars(\E t \in FairInstants : Advance(t))
  /\ WF_vars(\E ip \in Clients : Retry(ip))

\* one upload at a time, with a write of data.json that can fail
NextDisk == Step(Clients, {1}, MaxRequests, Instants, FileSizes, BOOLEAN)
SpecDisk == Init /\ [][NextDisk]_vars

-----------------------------------------------------------------------------
(* Vocabulary of the properties *)

\* this step is the rate limiter's evaluation of an upload request of ip
Evaluates(ip) == nreq' = nreq + 1 /\ lastResp'.ip = ip

\* this step is the recording of the completed upload of request r
Records(r) == reqs[r].pc /= "idle" /\ reqs'[r].pc = "idle" /\ lastResp'.kind = "ok"

\* this step ends request r without its upload having completed
Fails(r) == reqs[r].pc /= "idle" /\ reqs'[r].pc = "idle" /\ lastResp'.kind = "failed"

\* the events of a list whose age at time t is less than `window` milliseconds
Trailing(uploads, t, window) ==
  { i \in 1 .. Len(uploads) : uploads[i].timestamp + window > t }

QuotaKinds == {"minute", "hour", "day", "size"}

Minutes(n) == n * 60000

\* C2's escalation table, in minutes
Escalation(v) == IF v = 1 THEN 5 ELSE IF v = 2 THEN 15 ELSE IF v = 3 THEN 60 ELSE 1440

-----------------------------------------------------------------------------
(* C1 *)

\* C1: a client with no violation on record whose entry holds exactly 15 uploads,
\* all recorded within the trailing 60 seconds, sends its 16th upload request at
\* time now: the request is rejected with the per-minute message, violations = 1
\* and blockedUntil = now + 5 minutes.
C1_SixteenthRejected ==
  [][ \A ip \in IPs :
        ( /\ Evaluates(ip)
          /\ Has(ip)
          /\ EntryOf(ip).violations = 0
          /\ EntryOf(ip).blockedUntil = NULL
          /\ Len(EntryOf(ip).uploads) = 15
          /\ Cardinality(Trailing(EntryOf(ip).uploads, now, 60000)) = 15 )
        => /\ lastResp'.kind = "minute"
           /\ lastResp'.violations = 1
           /\ lastResp'.blockedUntil = now + Minutes(5)
           /\ heap'[rateLimitStore'[ip]].violations = 1
           /\ heap'[rateLimitStore'[ip]].blockedUntil = now + Minutes(5)
           /\ reqs' = reqs ]_vars

\* the 15th upload of the minute was admitted and recorded and the 16th request,
\* in the same minute, has just been rejected
C1_Witness ==
  /\ lastResp.kind = "minute"
  /\ lastResp.violations = 1
  /\ lastResp.blockedUntil = now + Minutes(5)
  /\ Has(lastResp.ip)
  /\ Len(EntryOf(lastResp.ip).uploads) = 15
  /\ Cardinality(Trailing(EntryOf(lastResp.ip).uploads, now, 60000)) = 15
  /\ EntryOf(lastResp.ip).uploads[15].timestamp = now
  /\ nreq = 2

-----------------------------------------------------------------------------
(* C2 *)

\* C2: every quota violation evaluated at time now increments violations by exactly
\* 1 and sets blockedUntil to now + D(v) for the new count v, with D(1) = 5 min,
\* D(2) = 15 min, D(3) = 60 min and D(v) = 24 h from the fourth on; the rejection
\* reports both values.
C2_Escalation ==
  [][ \A ip \in IPs :
        (Evaluates(ip) /\ lastResp'.kind \in QuotaKinds)
        => /\ Has(ip)
           /\ heap'[rateLimitStore'[ip]].violations = EntryOf(ip).violations + 1
           /\ heap'[rateLimitStore'[ip]].blockedUntil =
                now + Minutes(Escalation(EntryOf(ip).violations + 1))
           /\ lastResp'.violations = EntryOf(ip).violations + 1
           /\ lastResp'.blockedUntil = now + Minutes(Escalation(EntryOf(ip).violations + 1)) ]_vars

\* the fourth violation in a row, with no upload recorded in between, has just
\* been answered with a 24 hour block
C2_Witness ==
  /\ lastResp.kind \in QuotaKinds
  /\ lastResp.violations = 4
  /\ lastResp.blockedUntil = now + Minutes(1440)
  /\ nreq = 4
  /\ Has(lastResp.ip)
  /\ EntryOf(lastResp.ip).violations = 4

-----------------------------------------------------------------------------
(* C3 *)

\* C3: a request evaluated while the client's blockedUntil is set and
\* now < blockedUntil is rejected with that same blockedUntil, is not admitted, and
\* leaves the entry's uploads, violations and blockedUntil as they were.
C3_BlockedFrame ==
  [][ \A ip \in IPs :
        ( /\ Evaluates(ip)
          /\ Has(ip)
          /\ EntryOf(ip).blockedUntil /= NULL
          /\ now < EntryOf(ip).blockedUntil )
        => /\ lastResp'.kind = "blocked"
           /\ lastResp'.blockedUntil = EntryOf(ip).blockedUntil
           /\ rateLimitStore'[ip] = rateLimitStore[ip]
           /\ heap'[rateLimitStore'[ip]] = EntryOf(ip)
           /\ reqs' = reqs ]_vars

\* a request has just been rejected because of a block that ends later
C3_Witness ==
  /\ lastResp.kind = "blocked"
  /\ Has(lastResp.ip)
  /\ EntryOf(lastResp.ip).blockedUntil = lastResp.blockedUntil
  /\ now < lastResp.blockedUntil
  /\ EntryOf(lastResp.ip).violations = 1
  /\ now > Start

-----------------------------------------------------------------------------
(* C4 *)

\* C4: the recording of a completed upload of a client appends exactly one event
\* (now, size) to the entry the Map holds for that client, sets its violations to 0
\* and clears its blockedUntil; and the client's next request after a recording is
\* admitted whenever the four window totals of that entry are under their limits.
C4_RecordResets ==
  [][ /\ \A r \in Reqs :
           Records(r) =>
             LET ip == reqs[r].clientIP
             IN /\ Has(ip)
                /\ rateLimitStore'[ip] = rateLimitStore[ip]
                /\ Len(heap'[rateLimitStore'[ip]].uploads) = Len(EntryOf(ip).uploads) + 1
                /\ SubSeq(heap'[rateLimitStore'[ip]].uploads, 1, Len(EntryOf(ip).uploads))
                     = EntryOf(ip).uploads
                /\ heap'[rateLimitStore'[ip]].uploads[Len(EntryOf(ip).uploads) + 1].timestamp = now
                /\ heap'[rateLimitStore'[ip]].uploads[Len(EntryOf(ip).uploads) + 1].size
                     \in 0 .. MAX_FILE_SIZE
                /\ heap'[rateLimitStore'[ip]].violations = 0
                /\ heap'[rateLimitStore'[ip]].blockedUntil = NULL
      /\ \A ip \in IPs :
           ( /\ Evaluates(ip)
             /\ lastResp.kind = "ok" /\ lastResp.ip = ip
             /\ Has(ip)
             /\ Cardinality(Trailing(EntryOf(ip).uploads, now, 60000)) < 15
             /\ Cardinality(Trailing(EntryOf(ip).uploads, now, 3600000)) < 100
             /\ Cardinality(Trailing(EntryOf(ip).uploads, now, 86400000)) < 150
             /\ SumSize(SelectSeq(EntryOf(ip).uploads,
                                  LAMBDA u : u.timestamp + 3600000 > now)) < 52428800 )
           => lastResp'.kind = "next" ]_vars

-----------------------------------------------------------------------------
(* C6 *)

\* C6: in every interleaving of admission, cleanup and completion, the event of a
\* completed upload is in the entry the Map holds for its client once it is recorded
\* (so that the client's later evaluations count it).
C6_RecordReachesMap ==
  [][ \A r \in Reqs :
        Records(r) =>
          /\ rateLimitStore'[reqs[r].clientIP] /= NoEntry
          /\ \E i \in 1 .. Len(heap'[rateLimitStore'[reqs[r].clientIP]].uploads) :
               heap'[rateLimitStore'[reqs[r].clientIP]].uploads[i].timestamp = now ]_vars

-----------------------------------------------------------------------------
(* C5 *)

\* what an evaluation at time t decides for an entry
DecisionAt(rateData, t) ==
  IF IsBlocked(rateData, t) THEN "blocked"
  ELSE Violation(Counts(Prune(rateData, t).uploads, t))

\* C5: a request that is admitted and then ends without a completed upload changes
\* nothing a later evaluation depends on. Its admission appends no event and leaves
\* violations and blockedUntil as they were (it only drops events of 24 hours or
\* more), so that every evaluation from now on decides as it would have without
\* the request; its failure leaves the Map and every entry unchanged.
C5_FailedUploadLeavesNoTrace ==
  [][ /\ \A ip \in IPs :
           (Evaluates(ip) /\ lastResp'.kind = "next") =>
             LET before == IF Has(ip) THEN EntryOf(ip) ELSE FreshEntry
                 after  == heap'[rateLimitStore'[ip]]
             IN /\ after.violations = before.violations
                /\ after.blockedUntil = before.blockedUntil
                /\ after.uploads =
                     SelectSeq(before.uploads, LAMBDA u : u.timestamp + 86400000 > now)
                /\ \A t \in Instants \cup LongInstants :
                     t >= now => DecisionAt(after, t) = DecisionAt(before, t)
      /\ \A r \in Reqs :
           Fails(r) =>
             /\ rateLimitStore' = rateLimitStore
             /\ \A ip \in IPs : Has(ip) => heap'[rateLimitStore[ip]] = EntryOf(ip)
             /\ \A q \in Reqs \ {r} :
                  reqs[q].pc /= "idle" =>
                    heap'[reqs[q].rateLimitData] = heap[reqs[q].rateLimitData] ]_vars

\* an admitted request of a client with 14 recorded uploads has just failed
C5_Witness ==
  /\ lastResp.kind = "failed"
  /\ nreq = 1
  /\ Has(lastResp.ip)
  /\ Len(EntryOf(lastResp.ip).uploads) = 14
  /\ \A r \in Reqs : reqs[r].pc = "idle"

-----------------------------------------------------------------------------
(* C7 *)

\* the bytes an entry has recorded within the hour before t
HourBytes(uploads, t) ==
  SumSize(SelectSeq(uploads, LAMBDA u : u.timestamp + 3600000 > t))

\* C7: the upload that makes the client's recorded size within the trailing hour
\* cross 50 MiB is the one rejected with the hourly-size message: no recording
\* takes the trailing-hour size of the client's entry from below 50 MiB to above it.
C7_CrossingUploadRejected ==
  [][ \A r \in Reqs :
        (Records(r) /\ rateLimitStore[reqs[r].clientIP] = reqs[r].rateLimitData) =>
          ~ ( /\ HourBytes(heap[reqs[r].rateLimitData].uploads, now) < 52428800
              /\ HourBytes(heap'[reqs[r].rateLimitData].uploads, now) > 52428800 ) ]_vars

-----------------------------------------------------------------------------
(* C8 *)

\* C8: a request is rejected with the per-minute violation only when at least 15 of
\* the client's events have timestamps within the trailing 60 seconds.
C8_NoMinuteRejectionUnder15 ==
  [][ \A ip \in IPs :
        (Evaluates(ip) /\ lastResp'.kind = "minute") =>
          /\ Has(ip)
          /\ Cardinality(Trailing(EntryOf(ip).uploads, now, 60000)) >= 15 ]_vars

\* a request has just been admitted with 14 events in the trailing 60 seconds
C8_Witness ==
  /\ lastResp.kind = "next"
  /\ lastResp.counts.lastMinute = 14
  /\ Has(lastResp.ip)
  /\ Cardinality(Trailing(EntryOf(lastResp.ip).uploads, now, 60000)) = 14
  /\ \E r \in Reqs : reqs[r].pc = "multer"

-----------------------------------------------------------------------------
(* C9 *)

\* the events of a list that are less than 24 hours old at time t
Fresh(uploads, t) == SelectSeq(uploads, LAMBDA u : t - u.timestamp < 86400000)

\* this step computes the window totals for ip: an evaluation that gets past the
\* blocked test, or a status read of a client with an entry
ComputesTotals(ip) ==
  /\ Has(ip)
  /\ lastResp'.ip = ip
  /\ \/ nreq' = nreq + 1 /\ lastResp'.kind \in QuotaKinds \cup {"next"}
     \/ nreq' = nreq /\ lastResp'.kind = "status" /\ lastResp' /= lastResp

\* C9: the minute, hour, day and hourly-size totals of an evaluation or a status
\* read at time now are the totals over the events less than 24 hours old: an event
\* with now - timestamp >= 24 hours is in none of them.
C9_StaleEventsNotCounted ==
  [][ \A ip \in IPs :
        ComputesTotals(ip) =>
          LET young == Fresh(EntryOf(ip).uploads, now)
          IN /\ lastResp'.counts.lastDay = Len(young)
             /\ lastResp'.counts.lastHour = Cardinality(Trailing(young, now, 3600000))
             /\ lastResp'.counts.lastMinute = Cardinality(Trailing(young, now, 60000))
             /\ lastResp'.counts.hourlySize = HourBytes(young, now) ]_vars

\* a status read has just reported totals for an entry that still holds an event
\* recorded exactly 25 hours ago, and another event that it counts
C9_Witness ==
  /\ lastResp.kind = "status"
  /\ Has(lastResp.ip)
  /\ \E i \in 1 .. Len(EntryOf(lastResp.ip).uploads) :
       now - EntryOf(lastResp.ip).uploads[i].timestamp = 25 * 3600000
  /\ lastResp.counts.lastDay = Len(Fresh(EntryOf(lastResp.ip).uploads, now))
  /\ lastResp.counts.lastDay < Len(EntryOf(lastResp.ip).uploads)

-----------------------------------------------------------------------------
(* C10 *)

\* this step is a run of the cleanup timer
Sweeps == nextCleanup' /= nextCleanup

\* C10: a cleanup at time now removes every entry that has no event younger than
\* 24 hours and whose blockedUntil is unset or lies before now, and keeps every
\* entry that has an event younger than 24 hours or is blocked (now < blockedUntil),
\* with its events younger than 24 hours, its violations and its blockedUntil.
C10_Sweep ==
  [][ Sweeps =>
        \A ip \in IPs :
          Has(ip) =>
            LET data == EntryOf(ip)
                young == Fresh(data.uploads, now)
            IN /\ ( /\ young = <<>>
                    /\ (data.blockedUntil = NULL \/ now > data.blockedUntil) )
                  => rateLimitStore'[ip] = NoEntry
               /\ ( \/ young /= <<>>
                    \/ (data.blockedUntil /= NULL /\ now < data.blockedUntil) )
                  => /\ rateLimitStore'[ip] = rateLimitStore[ip]
                     /\ heap'[rateLimitStore[ip]] = [data EXCEPT !.uploads = young] ]_vars

\* a cleanup has just run and kept an entry that is blocked and has no events left
C10_Witness ==
  /\ nextCleanup = now + 3600000
  /\ \E ip \in IPs :
       /\ Has(ip)
       /\ EntryOf(ip).uploads = <<>>
       /\ EntryOf(ip).blockedUntil /= NULL
       /\ now < EntryOf(ip).blockedUntil

-----------------------------------------------------------------------------
(* C11 *)

\* this step ends request r with a storage step having failed: the write of the
\* file or of the converted file (a failure response), or the write of data.json
\* (the file on disk is left without the new image)
StorageFails(r) == Fails(r) \/ (Records(r) /\ dataFile' = "stale")

\* C11: when a storage step of an admitted upload fails (the write of the file, of
\* the converted file, or of the image metadata), no event is appended to the
\* client's entry and its violations and blockedUntil are not reset: the Map and
\* the client's entry are after the step what they were before it.
C11_StorageFailureNotRecorded ==
  [][ \A r \in Reqs :
        StorageFails(r) =>
          /\ rateLimitStore' = rateLimitStore
          /\ Has(reqs[r].clientIP) =>
               heap'[rateLimitStore[reqs[r].clientIP]] = EntryOf(reqs[r].clientIP) ]_vars

-----------------------------------------------------------------------------
(* C12 *)

\* this step is a status query answered for ip
StatusRead(ip) ==
  /\ lastResp' /= lastResp
  /\ lastResp'.kind \in {"status", "nodata"}
  /\ lastResp'.ip = ip

\* C12: the status query is read-only: in every state and for every client
\* identifier it leaves the Map and every entry's uploads, violations and
\* blockedUntil unchanged, and creates no entry for an identifier that has none.
C12_StatusReadOnly ==
  [][ \A ip \in IPs :
        StatusRead(ip) =>
          /\ rateLimitStore' = rateLimitStore
          /\ \A other \in IPs : Has(other) => heap'[rateLimitStore[other]] = EntryOf(other)
          /\ ~Has(ip) => (rateLimitStore'[ip] = NoEntry /\ lastResp'.kind = "nodata") ]_vars

\* a status query has just been answered for an identifier that has no entry,
\* while another client has an entry with recorded uploads and a block
C12_Witness ==
  /\ lastResp.kind = "nodata"
  /\ ~Has(lastResp.ip)
  /\ \E other \in IPs :
       /\ Has(other)
       /\ EntryOf(other).uploads /= <<>>
       /\ EntryOf(other).blockedUntil /= NULL

-----------------------------------------------------------------------------
(* C13 *)

\* C13: in every interleaving of concurrent requests and completions of a client,
\* its entry never holds more than 15 events with timestamps in the trailing 60
\* seconds (now - 60 s, now].
C13_AtMost15InMinute ==
  \A ip \in IPs :
    Has(ip) => Cardinality(Trailing(EntryOf(ip).uploads, now, 60000)) <= 15

-----------------------------------------------------------------------------
(* C14 *)

\* C14: a block set by a violation stands until it ends: while now < blockedUntil
\* no step, and in particular no completion of an upload admitted before the
\* violation, removes the entry, clears its blockedUntil or changes it, so that
\* every request arriving before blockedUntil is rejected.
C14_BlockStands ==
  [][ \A ip \in IPs :
        ( /\ Has(ip)
          /\ EntryOf(ip).blockedUntil /= NULL
          /\ now < EntryOf(ip).blockedUntil )
        => /\ rateLimitStore'[ip] = rateLimitStore[ip]
           /\ heap'[rateLimitStore[ip]].blockedUntil = EntryOf(ip).blockedUntil
           /\ Evaluates(ip) => lastResp'.kind = "blocked" ]_vars

-----------------------------------------------------------------------------
(* C15 *)

\* the quotas an entry has reached at time t, by name
Reached(uploads, t) ==
  (IF Cardinality(Trailing(uploads, t, 60000)) >= 15 THEN {"minute"} ELSE {})
  \cup (IF Cardinality(Trailing(uploads, t, 3600000)) >= 100 THEN {"hour"} ELSE {})
  \cup (IF Cardinality(Trailing(uploads, t, 86400000)) >= 150 THEN {"day"} ELSE {})
  \cup (IF HourBytes(uploads, t) >= 52428800 THEN {"size"} ELSE {})

\* the place of a quota in the priority order
Priority(kind) ==
  IF kind = "minute" THEN 1 ELSE IF kind = "hour" THEN 2 ELSE IF kind = "day" THEN 3 ELSE 4

\* C15: when the request of a client that is not blocked finds one or more quotas
\* reached, the rejection reports exactly one of them, the first reached in the
\* order minute-count, hour-count, day-count, hourly-size, and violations is
\* incremented once, whatever the number of quotas reached.
C15_HighestPriorityReported ==
  [][ \A ip \in IPs :
        ( /\ Evaluates(ip)
          /\ Has(ip)
          /\ ~(EntryOf(ip).blockedUntil /= NULL /\ now < EntryOf(ip).blockedUntil)
          /\ Reached(EntryOf(ip).uploads, now) /= {} )
        => /\ lastResp'.kind \in Reached(EntryOf(ip).uploads, now)
           /\ \A k \in Reached(EntryOf(ip).uploads, now) :
                Priority(lastResp'.kind) <= Priority(k)
           /\ lastResp'.violations = EntryOf(ip).violations + 1
           /\ heap'[rateLimitStore'[ip]].violations = EntryOf(ip).violations + 1 ]_vars

\* a request that found all four quotas reached has just been rejected with the
\* per-minute violation, as the client's first violation
C15_Witness ==
  /\ lastResp.kind = "minute"
  /\ lastResp.counts.lastHour >= 100
  /\ lastResp.counts.lastDay >= 150
  /\ lastResp.counts.hourlySize >= 52428800
  /\ lastResp.violations = 1
  /\ Has(lastResp.ip)
  /\ EntryOf(lastResp.ip).violations = 1

-----------------------------------------------------------------------------
(* C16 *)

\* every event of the entry the Map holds for ip after this step is less than 24
\* hours old at time now
AllFreshAfter(ip) ==
  rateLimitStore'[ip] /= NoEntry =>
    \A i \in 1 .. Len(heap'[rateLimitStore'[ip]].uploads) :
      now - heap'[rateLimitStore'[ip]].uploads[i].timestamp < 86400000

\* C16: after any evaluation of a client's request at time now, whether it ends in
\* admit, in a quota rejection or in a blocked rejection, and after any sweep at
\* time now, every event remaining in the client's entry has
\* now - timestamp < 24 hours.
C16_NoStaleEventAfterRead ==
  [][ \A ip \in IPs : (Evaluates(ip) \/ Sweeps) => AllFreshAfter(ip) ]_vars

\* C16 as the code has it: after an evaluation that ends in admit or in a quota
\* rejection, and after any sweep, every event remaining in the client's entry has
\* now - timestamp < 24 hours; a blocked rejection returns before pruning and
\* leaves the events of the entry as they were, older ones included.
C16_NoStaleEventAfterPrune ==
  [][ \A ip \in IPs :
        /\ ((Evaluates(ip) /\ lastResp'.kind /= "blocked") \/ Sweeps) => AllFreshAfter(ip)
        /\ (Evaluates(ip) /\ lastResp'.kind = "blocked") =>
             /\ Has(ip)
             /\ heap'[rateLimitStore'[ip]].uploads = EntryOf(ip).uploads ]_vars

\* the first request of a client whose entry held 150 uploads, 100 of them by now
\* 24 hours old, has just been admitted and 50 uploads remain
C16_Witness ==
  /\ lastResp.kind = "next"
  /\ nreq = 1
  /\ now >= Start + 22 * 3600000
  /\ Has(lastResp.ip)
  /\ Len(EntryOf(lastResp.ip).uploads) = 50
  /\ lastResp.counts.lastDay = 50

-----------------------------------------------------------------------------
(* C17 *)

\* ip is blocked now
Blocked(ip) ==
  /\ Has(ip)
  /\ EntryOf(ip).blockedUntil /= NULL
  /\ now < EntryOf(ip).blockedUntil

\* C17: no client is banned permanently: in every reachable state blockedUntil is
\* at most 24 hours after the time it was set (so at most 24 hours after now), and
\* under advancing time a blocked client that keeps sending requests is
\* eventually admitted.
C17_NoPermanentBan ==
  /\ [](\A ip \in IPs :
          (Has(ip) /\ EntryOf(ip).blockedUntil /= NULL)
            => EntryOf(ip).blockedUntil <= now + 86400000)
  /\ \A ip \in Clients : Blocked(ip) ~> (lastResp.kind = "next" /\ lastResp.ip = ip)

\* a client has just been admitted after four violations in a row, the last of
\* them punished with a block of 24 hours that has now ended
C17_Witness ==
  /\ lastResp.kind = "next"
  /\ nreq = 5
  /\ Has(lastResp.ip)
  /\ EntryOf(lastResp.ip).violations = 4
  /\ EntryOf(lastResp.ip).blockedUntil /= NULL
  /\ now >= EntryOf(lastResp.ip).blockedUntil

-----------------------------------------------------------------------------
(* C18 *)

\* C18: in every reachable state, every entry (one the Map holds, or one only a
\* request in flight still holds) has violations = 0 if and only if its
\* blockedUntil is unset.
C18_ViolationsIffBlockedUntil ==
  \A o \in ObjIds : (heap[o].violations = 0) <=> (heap[o].blockedUntil = NULL)

\* an entry carries its second violation in a row and the block of 15 minutes
\* set with it
C18_Witness ==
  \E ip \in IPs :
    /\ Has(ip)
    /\ EntryOf(ip).violations = 2
    /\ EntryOf(ip).blockedUntil = now + 15 * 60000

-----------------------------------------------------------------------------
(* C19 *)

\* C19: the request path never removes an entry from the Map. An entry appears
\* only in the evaluation of the first request of an identifier that has none, with
\* no uploads, violations 0 and blockedUntil unset (that request is admitted); an
\* entry that exists leaves the Map, or is replaced, only in a run of the cleanup.
C19_OnlySweepDeletes ==
  [][ \A ip \in IPs :
        /\ (~Has(ip) /\ rateLimitStore'[ip] /= NoEntry) =>
             /\ Evaluates(ip)
             /\ heap'[rateLimitStore'[ip]].uploads = <<>>
             /\ heap'[rateLimitStore'[ip]].violations = 0
             /\ heap'[rateLimitStore'[ip]].blockedUntil = NULL
        /\ (Has(ip) /\ rateLimitStore'[ip] /= rateLimitStore[ip]) =>
             (Sweeps /\ rateLimitStore'[ip] = NoEntry)
        /\ (~Has(ip) /\ Evaluates(ip)) => rateLimitStore'[ip] /= NoEntry ]_vars

\* the entry created by a client's first request is still in the Map after that
\* request has failed
C19_Witness ==
  /\ lastResp.kind = "failed"
  /\ nreq = 1
  /\ Has(lastResp.ip)
  /\ EntryOf(lastResp.ip) = FreshEntry
  /\ \A r \in Reqs : reqs[r].pc = "idle"

-----------------------------------------------------------------------------
(* C20 *)

\* this step evaluates a request of ip or records an upload of ip
ActsFor(ip) ==
  \/ Evaluates(ip)
  \/ \E r \in Reqs : Records(r) /\ reqs[r].clientIP = ip

\* C20: clients are independent: the evaluation of a request of client A and the
\* recording of an upload of client A leave the Map's entry of every other client B
\* (its uploads, violations and blockedUntil) as it was, and the decision for a
\* request of B is the one B's own entry gives at that time.
C20_ClientsIndependent ==
  [][ \A ipA \in IPs :
        /\ ActsFor(ipA) =>
             \A ipB \in IPs \ {ipA} :
               /\ rateLimitStore'[ipB] = rateLimitStore[ipB]
               /\ Has(ipB) => heap'[rateLimitStore[ipB]] = EntryOf(ipB)
        /\ Evaluates(ipA) =>
             LET own == IF Has(ipA) THEN EntryOf(ipA) ELSE FreshEntry
                 quotas == Reached(Fresh(own.uploads, now), now)
             IN lastResp'.kind =
                  IF own.blockedUntil /= NULL /\ now < own.blockedUntil THEN "blocked"
                  ELSE IF quotas = {} THEN "next"
                  ELSE CHOOSE k \in quotas : \A other \in quotas : Priority(k) <= Priority(other)
      ]_vars

\* client b has just had its first upload recorded while client a, with 15 uploads
\* in the minute, is blocked
C20_Witness ==
  /\ lastResp.kind = "ok"
  /\ lastResp.ip = "b"
  /\ Has("b")
  /\ Len(EntryOf("b").uploads) = 1
  /\ Has("a")
  /\ Len(EntryOf("a").uploads) = 15
  /\ EntryOf("a").violations = 1
  /\ now < EntryOf("a").blockedUntil

====
